---- MODULE Spec2Model ----
(***************************************************************************)
(* The user-credential persistence core of the blog server:               *)
(*   src/src/server/db/users.ts   User entity, validation, QueryDispatcher *)
(*   src/src/server/db/utils.ts   the users table (schema)                 *)
(* Strings are sequences of one-character strings, so that trimming,       *)
(* length and character-class checks are computed, not assumed.            *)
(***************************************************************************)
EXTENDS Integers, Sequences, FiniteSets, TLC

VARIABLES
    users,   \* the rows of table users (the store)
    call,    \* call[c]: caller c's current or last entity operation
    vraw,    \* the raw string handed to a validation function
    vres,    \* what that validation function did with it
    dispatcher, \* User.dispatcher: the pool it holds, or NoDispatcher
    pool,    \* pool[p]: the connection pool of the p-th QueryDispatcher made
    teardown,   \* the calls of User.endDispatcher so far
    disp,    \* disp[d]: the frame of dispatch call d on the loaded dispatcher
    jin,     \* the Users handed to toJSON
    jout,    \* their serializations
    schema   \* whether table users exists in the store

\* the dispatcher's life cycle, and what the pure-function checks use
lifecycle == <<dispatcher, pool, teardown>>
pure == <<vraw, vres, jin, jout>>

vars ==
    <<users, call, vraw, vres, dispatcher, pool, teardown, disp, jin, jout,
      schema>>

(***************************************************************************)
(* Bounds of the model and constants of the program                        *)
(***************************************************************************)
\* surrounding whitespace of the enumerated raw strings: 0..MaxPad per side
MaxPad == 2
\* distinct salts bcrypt.genSalt can return
NumSalts == 2
\* connections a pool hands out at once
PoolSize == 2
\* calls of User.endDispatcher, and QueryDispatchers ever made, in one run
MaxEndCalls == 3
MaxPools == 2

UsernameMin == 3
UsernameMax == 16
PasswordMin == 8
PasswordMax == 50

(***************************************************************************)
(* Characters and strings                                                  *)
(***************************************************************************)
WhitespaceChars == {" ", "\t"}
AlnumChars == {"a", "b", "c", "d", "Z", "7"}

RECURSIVE Rep(_, _)
Rep(ch, n) == IF n = 0 THEN <<>> ELSE <<ch>> \o Rep(ch, n - 1)

\* validator.ltrim(str): drops the leading whitespace (/^\s+/)
RECURSIVE LTrim(_)
LTrim(s) ==
    IF s # <<>> /\ Head(s) \in WhitespaceChars THEN LTrim(Tail(s)) ELSE s

\* validator.rtrim(str): drops the trailing whitespace
RECURSIVE RTrim(_)
RTrim(s) ==
    IF s # <<>> /\ s[Len(s)] \in WhitespaceChars
    THEN RTrim(SubSeq(s, 1, Len(s) - 1))
    ELSE s

\* validator.trim(str) = rtrim(ltrim(str))
Trim(s) == RTrim(LTrim(s))

\* validator.isLength(str, {min, max})
IsLength(s, min, max) == Len(s) >= min /\ Len(s) <= max

\* validator.isAlphanumeric(str), locale en-US: /^[0-9A-Z]+$/i
IsAlphanumeric(s) ==
    /\ Len(s) >= 1
    /\ \A i \in 1..Len(s) : s[i] \in AlnumChars

\* password-validator's spaces rule: the string holds a whitespace character
HasSpaces(s) == \E i \in 1..Len(s) : s[i] \in WhitespaceChars

(***************************************************************************)
(* Validation rules                                                        *)
(***************************************************************************)
\* variant: the second rule is skipped once the first has failed
UsernameErrorsShortCircuit(username) ==
    LET t == Trim(username)
    IN  IF ~IsLength(t, UsernameMin, UsernameMax) THEN <<"length">>
        ELSE IF ~IsAlphanumeric(t) THEN <<"alphanumeric">>
        ELSE <<>>

\* the errors array validateUsername collects, in push order
UsernameErrors(username) ==
    LET trimmedUsername == Trim(username)
    IN  (IF ~IsLength(trimmedUsername, UsernameMin, UsernameMax)
            THEN <<"length">> ELSE <<>>)
        \o (IF ~IsAlphanumeric(trimmedUsername)
            THEN <<"alphanumeric">> ELSE <<>>)

\* variant: the rules run on the password as given
PasswordErrorsUntrimmed(password) ==
    (IF Len(password) < PasswordMin THEN <<"min">> ELSE <<>>)
    \o (IF Len(password) > PasswordMax THEN <<"max">> ELSE <<>>)
    \o (IF HasSpaces(password) THEN <<"spaces">> ELSE <<>>)

\* passwordValidator.validate(trimmedPassword, {list: true}) for
\* is().min(8).is().max(50).has().not().spaces(): the failed rules, in order
PasswordErrors(password) ==
    LET trimmedPassword == Trim(password)
    IN  (IF Len(trimmedPassword) < PasswordMin THEN <<"min">> ELSE <<>>)
        \o (IF Len(trimmedPassword) > PasswordMax THEN <<"max">> ELSE <<>>)
        \o (IF HasSpaces(trimmedPassword) THEN <<"spaces">> ELSE <<>>)

\* a call's outcome: kind, the User returned (at most one), the violations
Outcome(kind, user, errors) == [kind |-> kind, user |-> user, errors |-> errors]
NoOutcome == Outcome("none", {}, <<>>)
\* the User an outcome carries
TheUser(outcome) == CHOOSE r \in outcome.user : TRUE

\* User.validateUsername: true, or throws InvalidUsernameError(errors)
validateUsername(username) ==
    IF Len(UsernameErrors(username)) > 0
    THEN Outcome("InvalidUsername", {}, UsernameErrors(username))
    ELSE Outcome("true", {}, <<>>)

\* User.validatePassword: true, or throws InvalidPasswordError(errors)
validatePassword(password) ==
    IF Len(PasswordErrors(password)) > 0
    THEN Outcome("InvalidPassword", {}, PasswordErrors(password))
    ELSE Outcome("true", {}, <<>>)

(***************************************************************************)
(* The store: table users(id UUID PRIMARY KEY, username VARCHAR(16) UNIQUE,*)
(* hash TEXT, created_at TIMESTAMPTZ)                                      *)
(***************************************************************************)
Callers == {"c1", "c2"}

WellFormedIds == {"id1", "id2"}
MalformedId == "12345"
NoId == ""
Salts == 1..NumSalts
Dates == {1}

\* whether the store accepts the text as a value of type UUID
IsUuid(id) == id \in WellFormedIds

\* bcrypt.hash(password, salt): determined by the salt and the password,
\* and carrying the salt
BcryptHash(password, salt) == [salt |-> salt, digest |-> password]

\* bcrypt.compare(password, hash): re-derives with the hash's salt
BcryptCompare(password, hash) == BcryptHash(password, hash.salt) = hash

\* user.validPassword(password)
validPassword(user, password) == BcryptCompare(password, user.hash)

\* what a statement did: executed or rejected, the rows it returned, the table
StmtResult(ok, rows, tbl) == [ok |-> ok, rows |-> rows, tbl |-> tbl]

\* variant: username without its UNIQUE constraint
InsertNoUnique(tbl, row) ==
    IF \/ ~IsUuid(row.id)
       \/ \E r \in tbl : r.id = row.id
       \/ Len(row.username) > UsernameMax
    THEN StmtResult(FALSE, {}, tbl)
    ELSE StmtResult(TRUE, {row}, tbl \cup {row})

\* INSERT INTO users(id, username, hash, created_at) VALUES(...) RETURNING *
\* rejected for a malformed id, a taken id (PRIMARY KEY), a taken username
\* (UNIQUE) or a username over VARCHAR(16)
Insert(tbl, row) ==
    IF \/ ~IsUuid(row.id)
       \/ \E r \in tbl : r.id = row.id
       \/ \E r \in tbl : r.username = row.username
       \/ Len(row.username) > UsernameMax
    THEN StmtResult(FALSE, {}, tbl)
    ELSE StmtResult(TRUE, {row}, tbl \cup {row})

\* variant: username without its UNIQUE constraint
UpdateNoUnique(tbl, username, id) ==
    LET hit == {r \in tbl : r.id = id}
        new == {[r EXCEPT !.username = username] : r \in hit}
    IN  IF ~IsUuid(id) THEN StmtResult(FALSE, {}, tbl)
        ELSE StmtResult(TRUE, new, (tbl \ hit) \cup new)

\* variant: an id of no row gets a row of the new username
UpdateUpsert(tbl, username, id) ==
    LET hit == {r \in tbl : r.id = id}
        new == IF hit = {}
               THEN {[id |-> id, username |-> username,
                      hash |-> BcryptHash(<<>>, 1), created_at |-> 1]}
               ELSE {[r EXCEPT !.username = username] : r \in hit}
    IN  IF ~IsUuid(id) THEN StmtResult(FALSE, {}, tbl)
        ELSE IF \E r \in tbl \ hit : r.username = username
        THEN StmtResult(FALSE, {}, tbl)
        ELSE StmtResult(TRUE, new, (tbl \ hit) \cup new)

\* variant: the UPDATE stamps the row anew
UpdateTouchesCreatedAt(tbl, username, id) ==
    LET hit == {r \in tbl : r.id = id}
        new == {[r EXCEPT !.username = username, !.created_at = @ + 1] :
                r \in hit}
    IN  IF ~IsUuid(id) THEN StmtResult(FALSE, {}, tbl)
        ELSE IF hit # {} /\ (\/ Len(username) > UsernameMax
                             \/ \E r \in tbl \ hit : r.username = username)
        THEN StmtResult(FALSE, {}, tbl)
        ELSE StmtResult(TRUE, new, (tbl \ hit) \cup new)

\* UPDATE users SET username = $1 WHERE id = $2 RETURNING *
\* rejected for a malformed id, or when the row it changes would break UNIQUE
\* or VARCHAR(16); zero rows when no row has the id
Update(tbl, username, id) ==
    LET hit == {r \in tbl : r.id = id}
        new == {[r EXCEPT !.username = username] : r \in hit}
    IN  IF ~IsUuid(id) THEN StmtResult(FALSE, {}, tbl)
        ELSE IF hit # {} /\ (\/ Len(username) > UsernameMax
                             \/ \E r \in tbl \ hit : r.username = username)
        THEN StmtResult(FALSE, {}, tbl)
        ELSE StmtResult(TRUE, new, (tbl \ hit) \cup new)

\* variant: a malformed id matches no row instead of being rejected
DeleteIdLenient(tbl, id) ==
    LET hit == {r \in tbl : r.id = id}
    IN  StmtResult(TRUE, hit, tbl \ hit)

\* DELETE FROM users WHERE id = $1 RETURNING *
DeleteId(tbl, id) ==
    LET hit == {r \in tbl : r.id = id}
    IN  IF ~IsUuid(id) THEN StmtResult(FALSE, {}, tbl)
        ELSE StmtResult(TRUE, hit, tbl \ hit)

\* variant: the row is returned but stays in the table
DeleteNameKeepsRow(tbl, username) ==
    LET hit == {r \in tbl : r.username = username}
    IN  StmtResult(TRUE, hit, tbl)

\* DELETE FROM users WHERE username = $1 RETURNING *
DeleteName(tbl, username) ==
    LET hit == {r \in tbl : r.username = username}
    IN  StmtResult(TRUE, hit, tbl \ hit)

\* SELECT * FROM users WHERE id = $1
SelectId(tbl, id) ==
    IF ~IsUuid(id) THEN StmtResult(FALSE, {}, tbl)
    ELSE StmtResult(TRUE, {r \in tbl : r.id = id}, tbl)

\* SELECT * FROM users WHERE username = $1
SelectName(tbl, username) ==
    StmtResult(TRUE, {r \in tbl : r.username = username}, tbl)

(***************************************************************************)
(* QueryDispatcher.dispatch and the User entity's reading of its result    *)
(***************************************************************************)
\* dispatch's return value: the QueryResult, or undefined
Undefined == [defined |-> FALSE, rows |-> {}]
QueryResult(rows) == [defined |-> TRUE, rows |-> rows]

\* try { data = await client.query(...) } finally { release; return data }
dispatch(stmt) == IF stmt.ok THEN QueryResult(stmt.rows) ELSE Undefined

queryWasInvalid(result) == ~result.defined
queryResultIsEmpty(result) == result.rows = {}
\* new User(result.rows[0])
parseSingleQueryResult(result) == {CHOOSE r \in result.rows : TRUE}

\* the tail shared by find*, delete* and updateUsername
ParseResult(result) ==
    IF queryWasInvalid(result) THEN Outcome("InvalidInput", {}, <<>>)
    ELSE IF queryResultIsEmpty(result) THEN Outcome("absent", {}, <<>>)
    ELSE Outcome("User", parseSingleQueryResult(result), <<>>)

\* the tail of register: if (!result) throw new UsernameInUseError()
ParseRegisterResult(result) ==
    IF ~result.defined THEN Outcome("UsernameInUse", {}, <<>>)
    ELSE Outcome("User", parseSingleQueryResult(result), <<>>)

(***************************************************************************)
(* Inputs the callers draw from                                            *)
(***************************************************************************)
NameA == <<"a", "b", "c">>
NameB == <<"a", "b", "d">>
NameAPadded == <<" ">> \o NameA \o <<"\t", " ">>
NameShort == <<"a", "b">>
PassA == Rep("a", PasswordMin)
PassAPadded == <<" ">> \o PassA \o <<" ">>
PassShort == Rep("a", PasswordMin - 1)
IdArgs == WellFormedIds \cup {MalformedId}

\* register(username, password, options.id): valid and padded credentials,
\* an invalid username, an invalid password, caller-supplied ids
RegisterInputs ==
    {<<NameA, PassA, NoId>>, <<NameAPadded, PassAPadded, NoId>>,
     <<NameB, PassA, NoId>>, <<NameShort, PassA, NoId>>,
     <<NameA, PassShort, NoId>>, <<NameB, PassAPadded, "id1">>,
     <<NameB, PassA, MalformedId>>}
\* updateUsername(id, username)
UpdateInputs == IdArgs \X {NameAPadded, NameB, NameShort}
\* findByUsername(username), deleteByUsername(username): not trimmed there
LookupNames == {NameA, NameAPadded, NameB}

(***************************************************************************)
(* State                                                                   *)
(***************************************************************************)
\* pc: idle | hash (register, awaiting bcrypt) | query (inside dispatch,
\*     awaiting the statement) | done
\* row: the row register is about to insert; data: what dispatch returned;
\* dispatches, hashed: how many dispatch calls and whether a hash
\* computation the operation has made
IdleCall ==
    [pc |-> "idle", op |-> "none", id |-> NoId, username |-> <<>>,
     password |-> <<>>, row |-> {}, data |-> Undefined, result |-> NoOutcome,
     dispatches |-> 0, hashed |-> FALSE]

NewCall(op, id, username, password) ==
    [IdleCall EXCEPT !.op = op, !.id = id, !.username = username,
                     !.password = password]

\* vres: which validation function ran, and its outcome
NotValidated == [fn |-> "none", out |-> NoOutcome]

Ready(c) == call[c].pc \in {"idle", "done"}

\* User.dispatcher when no dispatcher is loaded (undefined)
NoDispatcher == 0

\* new Pool(): no connection checked out, end() not called
\* out: connections checked out; ends: calls of end(); refused: whether a
\* call of end() was refused because the pool had been ended already
NewPool == [out |-> 0, ends |-> 0, refused |-> FALSE]

\* calls: how many times User.endDispatcher was called; raised: whether one
\* of the calls raised an error
NoTeardown == [calls |-> 0, raised |-> FALSE]

\* a dispatch call frame.  pc: idle | connect (awaiting pool.connect) |
\* query (holding a connection, awaiting the statement) | returned;
\* acquired, released: connections the call got and gave back;
\* executed: no | ok | failed, the fate of its statement, and rows: the rows
\* the statement produced; data, threw: what the call returned, and whether
\* it ended by throwing
IdleFrame ==
    [pc |-> "idle", acquired |-> 0, released |-> 0, executed |-> "no",
     rows |-> {}, data |-> Undefined, threw |-> FALSE]

\* the dispatch calls that may be in progress at once: one more than the
\* pool has connections
Dispatchers == 1..(PoolSize + 1)

\* User.init() at module load: a new QueryDispatcher with its own pool
ModuleLoaded ==
    /\ dispatcher = 1
    /\ pool = <<NewPool>>
    /\ teardown = NoTeardown
    /\ disp = [d \in Dispatchers |-> IdleFrame]

\* initializeUserDatabase has run: table users exists
TableCreated == schema = "users"

NothingSerialized ==
    /\ jin = <<>>
    /\ jout = <<>>

Init ==
    /\ users = {}
    /\ call = [c \in Callers |-> IdleCall]
    /\ vraw = <<>>
    /\ vres = NotValidated
    /\ ModuleLoaded
    /\ TableCreated
    /\ NothingSerialized

\* an operation ends: its outcome is the caller's to see
Finish(c, cl, data, result) ==
    call' = [call EXCEPT ![c] =
                [cl EXCEPT !.pc = "done", !.row = {}, !.data = data,
                           !.result = result]]

\* User.dispatcher.dispatch on undefined: a TypeError, thrown to the caller
TypeError == Outcome("TypeError", {}, <<>>)

\* variant: the statement goes out whether or not a dispatcher is loaded
DispatchWithoutDispatcher(c, cl) ==
    call' = [call EXCEPT ![c] =
                [cl EXCEPT !.pc = "query", !.dispatches = @ + 1]]

\* User.dispatchQuery -> User.dispatcher.dispatch: the statement is on its
\* way, unless User.dispatcher is undefined and the member access throws
Dispatch(c, cl) ==
    IF dispatcher = NoDispatcher
    THEN Finish(c, cl, Undefined, TypeError)
    ELSE call' = [call EXCEPT ![c] =
                     [cl EXCEPT !.pc = "query", !.dispatches = @ + 1]]

(***************************************************************************)
(* User.register                                                           *)
(***************************************************************************)
\* variant: register goes on to hash without validating
RegisterHeadNoValidation(c, username, password, id) ==
    /\ Ready(c)
    /\ call' = [call EXCEPT ![c] =
                   [NewCall("register", id, username, password)
                       EXCEPT !.pc = "hash"]]
    /\ UNCHANGED <<schema, users, pure, lifecycle, disp>>

\* the synchronous head of register: validateUsername, then validatePassword
RegisterHead(c, username, password, id) ==
    /\ Ready(c)
    /\ LET cl == NewCall("register", id, username, password)
       IN  IF validateUsername(username).kind # "true"
           THEN Finish(c, cl, Undefined, validateUsername(username))
           ELSE IF validatePassword(password).kind # "true"
           THEN Finish(c, cl, Undefined, validatePassword(password))
           ELSE call' = [call EXCEPT ![c] = [cl EXCEPT !.pc = "hash"]]
    /\ UNCHANGED <<schema, users, pure, lifecycle, disp>>

CallRegister(c) ==
    \E in \in RegisterInputs : RegisterHead(c, in[1], in[2], in[3])

\* ids uuidv4() can return: none that is in the table or on its way there
FreshIds ==
    WellFormedIds \ ({r.id : r \in users}
                     \cup {r.id : r \in UNION {call[d].row : d \in DOMAIN call}})

\* variant: the password is hashed as given
RegisterRowRawPassword(cl, salt, created_at, id) ==
    [id |-> id, username |-> Trim(cl.username),
     hash |-> BcryptHash(cl.password, salt), created_at |-> created_at]

\* variant: the username is stored as given
RegisterRowRawUsername(cl, salt, created_at, id) ==
    [id |-> id, username |-> cl.username,
     hash |-> BcryptHash(Trim(cl.password), salt), created_at |-> created_at]

\* the row register builds: trimmed username, hash of the trimmed password
RegisterRow(cl, salt, created_at, id) ==
    [id |-> id, username |-> Trim(cl.username),
     hash |-> BcryptHash(Trim(cl.password), salt), created_at |-> created_at]

\* genSalt, hash, new Date(), options.id || uuidv4(), then dispatchQuery
HashAndDispatch(c) ==
    /\ call[c].pc = "hash"
    /\ \E salt \in Salts, created_at \in Dates,
          id \in (IF call[c].id # NoId THEN {call[c].id} ELSE FreshIds) :
          Dispatch(c, [call[c] EXCEPT
                         !.hashed = TRUE,
                         !.row = {RegisterRow(call[c], salt, created_at, id)}])
    /\ UNCHANGED <<schema, users, pure, lifecycle, disp>>

\* the INSERT executes; dispatch returns; register reads the result
RegisterTail(c) ==
    /\ call[c].pc = "query"
    /\ call[c].op = "register"
    /\ LET stmt == Insert(users, CHOOSE r \in call[c].row : TRUE)
       IN  /\ users' = stmt.tbl
           /\ Finish(c, call[c], dispatch(stmt),
                     ParseRegisterResult(dispatch(stmt)))
    /\ UNCHANGED <<schema, pure, lifecycle, disp>>

(***************************************************************************)
(* User.updateUsername                                                     *)
(***************************************************************************)
\* variant: updateUsername dispatches without validating
UpdateUsernameHeadNoValidation(c, id, username) ==
    /\ Ready(c)
    /\ Dispatch(c, NewCall("updateUsername", id, username, <<>>))
    /\ UNCHANGED <<schema, users, pure, lifecycle, disp>>

\* the synchronous head of updateUsername: validateUsername, then dispatch
UpdateUsernameHead(c, id, username) ==
    /\ Ready(c)
    /\ LET cl == NewCall("updateUsername", id, username, <<>>)
       IN  IF validateUsername(username).kind # "true"
           THEN Finish(c, cl, Undefined, validateUsername(username))
           ELSE Dispatch(c, cl)
    /\ UNCHANGED <<schema, users, pure, lifecycle, disp>>

CallUpdateUsername(c) ==
    \E in \in UpdateInputs : UpdateUsernameHead(c, in[1], in[2])

\* variant: the new username is sent as given
UpdateUsernameTailUntrimmed(c) ==
    /\ call[c].pc = "query"
    /\ call[c].op = "updateUsername"
    /\ LET stmt == Update(users, call[c].username, call[c].id)
       IN  /\ users' = stmt.tbl
           /\ Finish(c, call[c], dispatch(stmt), ParseResult(dispatch(stmt)))
    /\ UNCHANGED <<schema, pure, lifecycle, disp>>

\* the UPDATE executes; dispatch returns; updateUsername reads the result
UpdateUsernameTail(c) ==
    /\ call[c].pc = "query"
    /\ call[c].op = "updateUsername"
    /\ LET stmt == Update(users, Trim(call[c].username), call[c].id)
       IN  /\ users' = stmt.tbl
           /\ Finish(c, call[c], dispatch(stmt), ParseResult(dispatch(stmt)))
    /\ UNCHANGED <<schema, pure, lifecycle, disp>>

(***************************************************************************)
(* User.deleteById, User.deleteByUsername                                  *)
(***************************************************************************)
CallDeleteById(c) ==
    /\ Ready(c)
    /\ \E id \in IdArgs : Dispatch(c, NewCall("deleteById", id, <<>>, <<>>))
    /\ UNCHANGED <<schema, users, pure, lifecycle, disp>>

\* variant: deleteById looks the row up in a dispatch of its own, then deletes
DeleteByIdTailLookupFirst(c) ==
    /\ call[c].pc = "query"
    /\ call[c].op = "deleteById"
    /\ IF call[c].dispatches = 1
       THEN /\ users' = SelectId(users, call[c].id).tbl
            /\ call' = [call EXCEPT ![c].dispatches = @ + 1]
       ELSE LET stmt == DeleteId(users, call[c].id)
            IN  /\ users' = stmt.tbl
                /\ Finish(c, call[c], dispatch(stmt),
                          ParseResult(dispatch(stmt)))
    /\ UNCHANGED <<schema, pure, lifecycle, disp>>

\* the DELETE executes; dispatch returns; deleteById reads the result
DeleteByIdTail(c) ==
    /\ call[c].pc = "query"
    /\ call[c].op = "deleteById"
    /\ LET stmt == DeleteId(users, call[c].id)
       IN  /\ users' = stmt.tbl
           /\ Finish(c, call[c], dispatch(stmt), ParseResult(dispatch(stmt)))
    /\ UNCHANGED <<schema, pure, lifecycle, disp>>

CallDeleteByUsername(c) ==
    /\ Ready(c)
    /\ \E username \in LookupNames :
          Dispatch(c, NewCall("deleteByUsername", NoId, username, <<>>))
    /\ UNCHANGED <<schema, users, pure, lifecycle, disp>>

DeleteByUsernameTail(c) ==
    /\ call[c].pc = "query"
    /\ call[c].op = "deleteByUsername"
    /\ LET stmt == DeleteName(users, call[c].username)
       IN  /\ users' = stmt.tbl
           /\ Finish(c, call[c], dispatch(stmt), ParseResult(dispatch(stmt)))
    /\ UNCHANGED <<schema, pure, lifecycle, disp>>

(***************************************************************************)
(* User.findById, User.findByUsername                                      *)
(***************************************************************************)
CallFindById(c) ==
    /\ Ready(c)
    /\ \E id \in IdArgs : Dispatch(c, NewCall("findById", id, <<>>, <<>>))
    /\ UNCHANGED <<schema, users, pure, lifecycle, disp>>

FindByIdTail(c) ==
    /\ call[c].pc = "query"
    /\ call[c].op = "findById"
    /\ LET stmt == SelectId(users, call[c].id)
       IN  /\ users' = stmt.tbl
           /\ Finish(c, call[c], dispatch(stmt), ParseResult(dispatch(stmt)))
    /\ UNCHANGED <<schema, pure, lifecycle, disp>>

CallFindByUsername(c) ==
    /\ Ready(c)
    /\ \E username \in LookupNames :
          Dispatch(c, NewCall("findByUsername", NoId, username, <<>>))
    /\ UNCHANGED <<schema, users, pure, lifecycle, disp>>

FindByUsernameTail(c) ==
    /\ call[c].pc = "query"
    /\ call[c].op = "findByUsername"
    /\ LET stmt == SelectName(users, call[c].username)
       IN  /\ users' = stmt.tbl
           /\ Finish(c, call[c], dispatch(stmt), ParseResult(dispatch(stmt)))
    /\ UNCHANGED <<schema, pure, lifecycle, disp>>

(***************************************************************************)
(* The entity under concurrent callers                                     *)
(***************************************************************************)
Next ==
    \E c \in Callers :
        \/ CallRegister(c)
        \/ HashAndDispatch(c)
        \/ RegisterTail(c)
        \/ CallUpdateUsername(c)
        \/ UpdateUsernameTail(c)
        \/ CallDeleteById(c)
        \/ DeleteByIdTail(c)
        \/ CallDeleteByUsername(c)
        \/ DeleteByUsernameTail(c)
        \/ CallFindById(c)
        \/ FindByIdTail(c)
        \/ CallFindByUsername(c)
        \/ FindByUsernameTail(c)

Spec == Init /\ [][Next]_vars

(***************************************************************************)
(* The validation functions on their own, over enumerated raw strings      *)
(***************************************************************************)
Pad(n) == [i \in 1..n |-> IF i % 2 = 1 THEN " " ELSE "\t"]

\* body lengths around every limit of the two validators
Lens ==
    {0, 1} \cup UNION {{k - 1, k, k + 1} :
                       k \in {UsernameMin, UsernameMax, PasswordMin, PasswordMax}}

\* n characters "a", the second one replaced by ch
Body(n, ch) == [i \in 1..n |-> IF i = 2 THEN ch ELSE "a"]

RawStrings ==
    {Pad(l) \o Body(n, ch) \o Pad(r) :
        l \in 0..MaxPad, r \in 0..MaxPad, n \in Lens, ch \in {"a", "7", "&", " "}}

InitValidate ==
    /\ users = {}
    /\ call = [c \in Callers |-> IdleCall]
    /\ vraw \in RawStrings
    /\ vres = NotValidated
    /\ ModuleLoaded
    /\ TableCreated
    /\ NothingSerialized

ApplyValidateUsername ==
    /\ vres.fn = "none"
    /\ vres' = [fn |-> "validateUsername", out |-> validateUsername(vraw)]
    /\ UNCHANGED <<schema, users, call, vraw, jin, jout, lifecycle, disp>>

ApplyValidatePassword ==
    /\ vres.fn = "none"
    /\ vres' = [fn |-> "validatePassword", out |-> validatePassword(vraw)]
    /\ UNCHANGED <<schema, users, call, vraw, jin, jout, lifecycle, disp>>

NextValidate == ApplyValidateUsername \/ ApplyValidatePassword

SpecValidate == InitValidate /\ [][NextValidate]_vars

(***************************************************************************)
(* Concurrent register calls for one username: every caller calls once     *)
(***************************************************************************)
Racers == {"c1", "c2", "c3"}

\* raw inputs whose usernames are equal after trimming
RaceInputs ==
    {<<NameA, PassA, NoId>>, <<NameAPadded, PassAPadded, NoId>>,
     <<NameA, PassAPadded, "id1">>}

InitRace ==
    /\ users = {}
    /\ call = [c \in Racers |-> IdleCall]
    /\ vraw = <<>>
    /\ vres = NotValidated
    /\ ModuleLoaded
    /\ TableCreated
    /\ NothingSerialized

RaceCall(c) ==
    /\ call[c].pc = "idle"
    /\ \E in \in RaceInputs : RegisterHead(c, in[1], in[2], in[3])

NextRace ==
    \E c \in Racers : RaceCall(c) \/ HashAndDispatch(c) \/ RegisterTail(c)

SpecRace == InitRace /\ [][NextRace]_vars

(***************************************************************************)
(* QueryDispatcher.dispatch over a bounded pool, under concurrent calls    *)
(***************************************************************************)
\* what a statement can do: execute with no row, execute with a row, or be
\* rejected by the store
StmtOutcomes ==
    {StmtResult(TRUE, {}, {}),
     StmtResult(TRUE, {[id |-> "id1", username |-> NameA,
                        hash |-> BcryptHash(PassA, 1), created_at |-> 1]}, {}),
     StmtResult(FALSE, {}, {})}

\* variant: release() in the try body, after the statement (as in
\* dispatchQuery of utils.ts), so that a rejected statement skips it
DispatchExitReleaseInTry(stmt) ==
    [data |-> dispatch(stmt), threw |-> FALSE,
     releases |-> IF stmt.ok THEN 1 ELSE 0]

\* variant: finally releases but does not return, so the rejection goes on
DispatchExitRethrow(stmt) ==
    [data |-> dispatch(stmt), threw |-> ~stmt.ok, releases |-> 1]

\* variant: dispatch returns without releasing its connection
DispatchExitNoRelease(stmt) ==
    [data |-> dispatch(stmt), threw |-> FALSE, releases |-> 0]

\* how dispatch leaves once client.query has settled:
\*   try { data = await client.query(..) } finally { client.release(); return data }
\* one release on either path, and the return in finally discards a rejection
DispatchExit(stmt) ==
    [data |-> dispatch(stmt), threw |-> FALSE, releases |-> 1]

InitPool ==
    /\ users = {}
    /\ call = [c \in Callers |-> IdleCall]
    /\ vraw = <<>>
    /\ vres = NotValidated
    /\ ModuleLoaded
    /\ TableCreated
    /\ NothingSerialized

\* dispatch(query, values) is called: pool.connect() is awaited
DispatchCall(d) ==
    /\ dispatcher # NoDispatcher
    /\ disp[d].pc \in {"idle", "returned"}
    /\ disp' = [disp EXCEPT ![d] = [IdleFrame EXCEPT !.pc = "connect"]]
    /\ UNCHANGED <<schema, users, call, pure, lifecycle>>

\* the pool hands the call a connection, once one is free
Connect(d) ==
    /\ disp[d].pc = "connect"
    /\ pool[dispatcher].out < PoolSize
    /\ pool' = [pool EXCEPT ![dispatcher].out = @ + 1]
    /\ disp' = [disp EXCEPT ![d].pc = "query", ![d].acquired = 1]
    /\ UNCHANGED <<schema, users, call, pure, dispatcher, teardown>>

\* pool.connect() rejects (the store cannot be reached): nothing guards the
\* await, so dispatch throws without having held a connection
ConnectFail(d) ==
    /\ disp[d].pc = "connect"
    /\ disp' = [disp EXCEPT ![d].pc = "returned", ![d].threw = TRUE]
    /\ UNCHANGED <<schema, users, call, pure, lifecycle>>

\* client.query settles, and dispatch leaves through finally
Query(d) ==
    /\ disp[d].pc = "query"
    /\ \E stmt \in StmtOutcomes :
          LET exit == DispatchExit(stmt)
          IN  /\ pool' = [pool EXCEPT ![dispatcher].out = @ - exit.releases]
              /\ disp' = [disp EXCEPT ![d] =
                            [@ EXCEPT !.pc = "returned",
                                      !.released = exit.releases,
                                      !.executed = IF stmt.ok THEN "ok"
                                                   ELSE "failed",
                                      !.rows = stmt.rows,
                                      !.data = exit.data,
                                      !.threw = exit.threw]]
    /\ UNCHANGED <<schema, users, call, pure, dispatcher, teardown>>

NextPool ==
    \E d \in Dispatchers :
        DispatchCall(d) \/ Connect(d) \/ ConnectFail(d) \/ Query(d)

SpecPool == InitPool /\ [][NextPool]_vars

\* the pool serves every waiting call in the end (its queue of pending
\* connect requests is served in order as connections come back), and every
\* statement execution terminates
PoolFairness ==
    \A d \in Dispatchers : SF_vars(Connect(d)) /\ WF_vars(Query(d))

SpecPoolFair == InitPool /\ [][NextPool]_vars /\ PoolFairness

(***************************************************************************)
(* The dispatcher's life cycle: User.init, User.endDispatcher, and one     *)
(* caller of the entity operations                                         *)
(***************************************************************************)
\* pool.end(): the pool refuses to be ended a second time
PoolEnd(p) == [p EXCEPT !.ends = @ + 1, !.refused = @ \/ p.ends >= 1]

\* variant: no guard, so end() is called on undefined
endDispatcherUnguarded(dsp, pl) ==
    IF dsp # NoDispatcher
    THEN [dispatcher |-> NoDispatcher,
          pool |-> [pl EXCEPT ![dsp] = PoolEnd(@)], raised |-> FALSE]
    ELSE [dispatcher |-> NoDispatcher, pool |-> pl, raised |-> TRUE]

\* if (User.dispatcher) { User.dispatcher.end(); User.dispatcher = undefined; }
endDispatcher(dsp, pl) ==
    IF dsp # NoDispatcher
    THEN [dispatcher |-> NoDispatcher,
          pool |-> [pl EXCEPT ![dsp] = PoolEnd(@)], raised |-> FALSE]
    ELSE [dispatcher |-> dsp, pool |-> pl, raised |-> FALSE]

LoneCaller == {"c1"}

InitLifecycle ==
    /\ users = {}
    /\ call = [c \in LoneCaller |-> IdleCall]
    /\ vraw = <<>>
    /\ vres = NotValidated
    /\ ModuleLoaded
    /\ TableCreated
    /\ NothingSerialized

\* User.endDispatcher(), on the app's close event or by any other caller
EndDispatcher ==
    /\ teardown.calls < MaxEndCalls
    /\ LET after == endDispatcher(dispatcher, pool)
       IN  /\ dispatcher' = after.dispatcher
           /\ pool' = after.pool
           /\ teardown' = [calls |-> teardown.calls + 1,
                           raised |-> teardown.raised \/ after.raised]
    /\ UNCHANGED <<schema, users, call, pure, disp>>

\* User.init(): a new QueryDispatcher, with a pool of its own, is loaded
InitDispatcher ==
    /\ Len(pool) < MaxPools
    /\ pool' = Append(pool, NewPool)
    /\ dispatcher' = Len(pool) + 1
    /\ UNCHANGED <<schema, users, call, pure, teardown, disp>>

NextLifecycle ==
    \/ EndDispatcher
    \/ InitDispatcher
    \/ \E c \in LoneCaller :
          \/ CallRegister(c)
          \/ HashAndDispatch(c)
          \/ RegisterTail(c)
          \/ CallUpdateUsername(c)
          \/ UpdateUsernameTail(c)
          \/ CallDeleteById(c)
          \/ DeleteByIdTail(c)
          \/ CallDeleteByUsername(c)
          \/ DeleteByUsernameTail(c)
          \/ CallFindById(c)
          \/ FindByIdTail(c)
          \/ CallFindByUsername(c)
          \/ FindByUsernameTail(c)

SpecLifecycle == InitLifecycle /\ [][NextLifecycle]_vars

(***************************************************************************)
(* The table-reset helper of utils.ts: initializeUserDatabase, run by      *)
(* callers that may overlap, each dispatchQuery call with a pool of its    *)
(* own                                                                     *)
(***************************************************************************)
\* what a schema statement did: executed or rejected, its rows, the schema
\* DROP TABLE IF EXISTS users
DropTable(sch) == [ok |-> TRUE, rows |-> {}, schema |-> "none"]

\* CREATE TABLE users (...): rejected when the table exists
CreateTable(sch) ==
    IF sch = "users"
    THEN [ok |-> FALSE, rows |-> {}, schema |-> sch]
    ELSE [ok |-> TRUE, rows |-> {}, schema |-> "users"]

\* how dispatchQuery leaves once client.query has settled:
\*   try { data = await client.query(..); client.release(); return data }
\*   finally { pool.end(); return data }
\* release() is skipped by a rejection; end() runs on either path, and the
\* return in finally discards the rejection
dispatchQueryExit(stmt) ==
    [data |-> IF stmt.ok THEN QueryResult(stmt.rows) ELSE Undefined,
     threw |-> FALSE,
     releases |-> IF stmt.ok THEN 1 ELSE 0,
     ends |-> 1]

\* the overlapping runs of initializeUserDatabase
Resetters == {"r1", "r2"}

\* the frame of a run's current dispatchQuery call.  stmt: none | drop |
\* create; pool: the pool the call made; the other fields as in a dispatch
\* call frame
IdleReset ==
    [pc |-> "idle", stmt |-> "none", pool |-> 0, acquired |-> 0,
     released |-> 0, executed |-> "no", data |-> Undefined, threw |-> FALSE]

InitReset ==
    /\ users = {}
    /\ call = [c \in Callers |-> IdleCall]
    /\ vraw = <<>>
    /\ vres = NotValidated
    /\ dispatcher = 1
    /\ pool = <<NewPool>>
    /\ teardown = NoTeardown
    /\ disp = [r \in Resetters |-> IdleReset]
    /\ NothingSerialized
    /\ schema \in {"none", "users"}

\* dispatchQuery(stmt, []) is called: new Pool(), and pool.connect() is awaited
CallDispatchQuery(r, stmt) ==
    /\ pool' = Append(pool, NewPool)
    /\ disp' = [disp EXCEPT ![r] =
                  [IdleReset EXCEPT !.pc = "connect", !.stmt = stmt,
                                    !.pool = Len(pool) + 1]]
    /\ UNCHANGED <<users, call, pure, dispatcher, teardown, schema>>

\* initializeUserDatabase is called: its first statement is the DROP
ResetDrop(r) ==
    /\ disp[r].pc = "idle"
    /\ CallDispatchQuery(r, "drop")

\* the DROP call has returned: the second statement is the CREATE
ResetCreate(r) ==
    /\ disp[r].pc = "returned"
    /\ disp[r].stmt = "drop"
    /\ ~disp[r].threw
    /\ CallDispatchQuery(r, "create")

\* the call's own pool hands it a connection
ResetConnect(r) ==
    /\ disp[r].pc = "connect"
    /\ pool' = [pool EXCEPT ![disp[r].pool].out = @ + 1]
    /\ disp' = [disp EXCEPT ![r].pc = "query", ![r].acquired = 1]
    /\ UNCHANGED <<users, call, pure, dispatcher, teardown, schema>>

\* pool.connect() rejects: dispatchQuery throws before its try, the pool is
\* not ended, and initializeUserDatabase stops there
ResetConnectFail(r) ==
    /\ disp[r].pc = "connect"
    /\ disp' = [disp EXCEPT ![r].pc = "returned", ![r].threw = TRUE]
    /\ UNCHANGED <<users, call, pure, lifecycle, schema>>

\* client.query settles, and dispatchQuery leaves through finally
ResetQuery(r) ==
    /\ disp[r].pc = "query"
    /\ LET stmt == IF disp[r].stmt = "drop" THEN DropTable(schema)
                   ELSE CreateTable(schema)
           exit == dispatchQueryExit(stmt)
           p == disp[r].pool
           released == [pool[p] EXCEPT !.out = @ - exit.releases]
       IN  /\ schema' = stmt.schema
           /\ users' = IF stmt.ok THEN {} ELSE users
           /\ pool' = [pool EXCEPT ![p] =
                         IF exit.ends = 1 THEN PoolEnd(released)
                         ELSE released]
           /\ disp' = [disp EXCEPT ![r] =
                         [@ EXCEPT !.pc = "returned",
                                   !.released = exit.releases,
                                   !.executed = IF stmt.ok THEN "ok"
                                                ELSE "failed",
                                   !.data = exit.data,
                                   !.threw = exit.threw]]
    /\ UNCHANGED <<call, pure, dispatcher, teardown>>

NextReset ==
    \E r \in Resetters :
        \/ ResetDrop(r)
        \/ ResetCreate(r)
        \/ ResetConnect(r)
        \/ ResetConnectFail(r)
        \/ ResetQuery(r)

SpecReset == InitReset /\ [][NextReset]_vars

(***************************************************************************)
(* User.toJSON on its own, over pairs of enumerated Users                  *)
(***************************************************************************)
\* variant: every field of the User is serialized
toJSONWithHash(user) == user

\* toJSON() { return { id, username, created_at } }
toJSON(user) ==
    [id |-> user.id, username |-> user.username,
     created_at |-> user.created_at]

\* Users as rows of the table give them
SomeUsers ==
    [id : WellFormedIds, username : {NameA, NameB},
     hash : {BcryptHash(PassA, s) : s \in Salts} \cup {BcryptHash(NameA, 1)},
     created_at : {1, 2}]

InitSerialize ==
    /\ users = {}
    /\ call = [c \in Callers |-> IdleCall]
    /\ vraw = <<>>
    /\ vres = NotValidated
    /\ ModuleLoaded
    /\ TableCreated
    /\ jin \in SomeUsers \X SomeUsers
    /\ jout = <<>>

\* res.send(user): both Users are serialized
ApplyToJSON ==
    /\ jout = <<>>
    /\ jout' = <<toJSON(jin[1]), toJSON(jin[2])>>
    /\ UNCHANGED <<schema, users, call, vraw, vres, jin, lifecycle, disp>>

NextSerialize == ApplyToJSON

SpecSerialize == InitSerialize /\ [][NextSerialize]_vars

(***************************************************************************)
(* The login strategy (passport LocalStrategy) over registered users       *)
(***************************************************************************)
\* a JavaScript value as a condition sees it: a boolean, or the Promise an
\* async function returns when it is not awaited
Bool(value) == [promise |-> FALSE, value |-> value]
Promise(value) == [promise |-> TRUE, value |-> value]

\* !x: a Promise is an object, and an object is truthy whatever it settles to
Not(x) == IF x.promise THEN FALSE ELSE ~x.value

IncorrectUsername == Outcome("IncorrectUsername", {}, <<>>)
IncorrectPassword == Outcome("IncorrectPassword", {}, <<>>)

\* the verify callback, once findByUsername has settled with found:
\*   if (!user) done(null, false, "Incorrect username")
\*   if (!user.validPassword(password)) done(null, false, "Incorrect password.")
\*   done(null, user);   .catch((e) => done(e))
\* validPassword is async and is called without await
Verify(found, password) ==
    IF found.kind = "absent" THEN IncorrectUsername
    ELSE IF found.kind # "User" THEN found
    ELSE IF Not(Promise(validPassword(TheUser(found), password)))
    THEN IncorrectPassword
    ELSE Outcome("Authenticated", found.user, <<>>)

PassWrong == Rep("b", PasswordMin)
LoginInputs == {NameA, NameB} \X {PassA, PassAPadded, PassWrong}

InitLogin ==
    /\ users = {}
    /\ call = [c \in Callers |-> IdleCall]
    /\ vraw = <<>>
    /\ vres = NotValidated
    /\ ModuleLoaded
    /\ TableCreated
    /\ NothingSerialized

\* the strategy is invoked: User.findByUsername(username) is on its way
CallLogin(c) ==
    /\ Ready(c)
    /\ \E in \in LoginInputs :
          Dispatch(c, NewCall("login", NoId, in[1], in[2]))
    /\ UNCHANGED <<schema, users, pure, lifecycle, disp>>

\* the SELECT executes, findByUsername settles, and the callback decides
LoginTail(c) ==
    /\ call[c].pc = "query"
    /\ call[c].op = "login"
    /\ LET stmt == SelectName(users, call[c].username)
       IN  /\ users' = stmt.tbl
           /\ Finish(c, call[c], dispatch(stmt),
                     Verify(ParseResult(dispatch(stmt)), call[c].password))
    /\ UNCHANGED <<schema, pure, lifecycle, disp>>

NextLogin ==
    \E c \in Callers :
        \/ CallRegister(c)
        \/ HashAndDispatch(c)
        \/ RegisterTail(c)
        \/ CallLogin(c)
        \/ LoginTail(c)

SpecLogin == InitLogin /\ [][NextLogin]_vars

(***************************************************************************)
(* Properties                                                              *)
(***************************************************************************)
\* the tags of a violations list, and whether each tag is its own entry
Tags(errors) == {errors[i] : i \in 1..Len(errors)}
Separate(errors) == Cardinality(Tags(errors)) = Len(errors)

\* every character of s is alphanumeric (true of the empty string)
OnlyAlnum(s) == \A i \in 1..Len(s) : s[i] \in AlnumChars
InRange(s, min, max) == min <= Len(s) /\ Len(s) <= max
NoWhitespace(s) == \A i \in 1..Len(s) : s[i] \notin WhitespaceChars

UsernameChecked == vres.fn = "validateUsername"
PasswordChecked == vres.fn = "validatePassword"

\* what C6 and C6Original share: acceptance, and the 'length' tag
C6Common ==
    LET t == Trim(vraw)
        lengthOk == InRange(t, UsernameMin, UsernameMax)
        e == vres.out.errors
    IN  /\ vres.out.kind = "true" <=> (lengthOk /\ OnlyAlnum(t))
        /\ vres.out.kind \in {"true", "InvalidUsername"}
        /\ vres.out.kind = "true" => e = <<>>
        /\ Tags(e) \subseteq {"length", "alphanumeric"}
        /\ Separate(e)
        /\ "length" \in Tags(e) <=> ~lengthOk

C7_ValidatePassword ==
    PasswordChecked =>
        LET t == Trim(vraw)
            e == vres.out.errors
        IN  /\ vres.out.kind = "true"
                 <=> (InRange(t, PasswordMin, PasswordMax) /\ NoWhitespace(t))
            /\ vres.out.kind \in {"true", "InvalidPassword"}
            /\ vres.out.kind = "true" => e = <<>>
            /\ Separate(e)
            /\ Tags(e) = {tag \in {"min", "max", "spaces"} :
                            \/ tag = "min" /\ Len(t) < PasswordMin
                            \/ tag = "max" /\ Len(t) > PasswordMax
                            \/ tag = "spaces" /\ ~NoWhitespace(t)}
            /\ vres.out = validatePassword(t)

\* a password of 50 characters inside whitespace on both sides is accepted
C7_Witness ==
    /\ PasswordChecked
    /\ Len(Trim(vraw)) = PasswordMax
    /\ Len(vraw) > PasswordMax + 1
    /\ vres.out.kind = "true"

\* caller c's statement executes in this step and operation op returns
TailStep(c, op) ==
    /\ call[c].pc = "query"
    /\ call[c].op = op
    /\ call'[c].pc = "done"

\* caller c has returned from operation op
Returned(c, op) == call[c].pc = "done" /\ call[c].op = op

IsUser(outcome) == outcome.kind = "User" /\ Cardinality(outcome.user) = 1
NameTaken(tbl, name) == \E r \in tbl : r.username = name
IdPresent(tbl, id) == \E r \in tbl : r.id = id

\* C1 and C1Original, for the password the stored hash has to verify against:
\* (1) a register whose INSERT meets no row of that username (and brings an
\* unused well-formed id) returns a User of the trimmed username, stored, whose
\* hash verifies; (2) a findByUsername(trim(u)) that executes while the row a
\* returned register created is in the table returns that User.
C1Step(asSupplied) ==
    LET Pw(password) == IF asSupplied THEN password ELSE Trim(password)
    IN
    \A c \in DOMAIN call :
        /\ ( /\ TailStep(c, "register")
             /\ ~NameTaken(users, Trim(call[c].username))
             /\ \E r \in call[c].row : IsUuid(r.id) /\ ~IdPresent(users, r.id) )
           => /\ IsUser(call'[c].result)
              /\ TheUser(call'[c].result).username = Trim(call[c].username)
              /\ validPassword(TheUser(call'[c].result), Pw(call[c].password))
              /\ users' = users \cup call'[c].result.user
        /\ \A d \in DOMAIN call :
            ( /\ Returned(c, "register")
              /\ IsUser(call[c].result)
              /\ call[c].result.user \subseteq users
              /\ TailStep(d, "findByUsername")
              /\ call[d].username = Trim(call[c].username) )
            => /\ call'[d].result = call[c].result
               /\ TheUser(call'[d].result).username = Trim(call[c].username)
               /\ validPassword(TheUser(call'[d].result), Pw(call[c].password))

\* C1 as stated: register(u, p) followed by findByUsername(trim(u)) returns a
\* User whose username is trim(u) and whose hash verifies against p exactly as
\* the caller supplied it, surrounding whitespace included.
C1Original == [][C1Step(TRUE)]_vars

\* C1 (amended): register(u, p) followed by findByUsername(trim(u)) returns a
\* User whose username is trim(u) and whose hash verifies against trim(p); it
\* verifies against p as supplied only when p has no surrounding whitespace.
C1_RegisterThenFind ==
    [][ /\ C1Step(FALSE)
        /\ \A c \in DOMAIN call :
              (TailStep(c, "register") /\ IsUser(call'[c].result))
              => (validPassword(TheUser(call'[c].result), call[c].password)
                    <=> call[c].password = Trim(call[c].password)) ]_vars

\* a register with padded username and password has returned its User, and a
\* later findByUsername of the trimmed username has returned the same User
C1_Witness ==
    \E c, d \in DOMAIN call :
        /\ Returned(c, "register")
        /\ call[c].username = NameAPadded
        /\ call[c].password = PassAPadded
        /\ IsUser(call[c].result)
        /\ call[c].result.user \subseteq users
        /\ Returned(d, "findByUsername")
        /\ call[d].username = NameA
        /\ call[d].result = call[c].result

AllReturned == \A c \in DOMAIN call : Returned(c, "register")
Winners == {c \in DOMAIN call : IsUser(call[c].result)}

\* C2: concurrent register calls with usernames equal after trimming, in any
\* interleaving of their statements: once all have returned, exactly one has
\* returned a User, every other one failed with UsernameInUse, and exactly one
\* row with that username exists (and never more than one on the way).
C2_ConcurrentRegister ==
    /\ Cardinality({r \in users : r.username = NameA}) <= 1
    /\ Cardinality(Winners) <= 1
    /\ AllReturned =>
        /\ Cardinality(Winners) = 1
        /\ \A c \in DOMAIN call \ Winners :
              call[c].result = Outcome("UsernameInUse", {}, <<>>)
        /\ Cardinality({r \in users : r.username = NameA}) = 1
        /\ \A c \in Winners : call[c].result.user = users

\* three calls with differently padded inputs have returned; the padded one won
C2_Witness ==
    /\ AllReturned
    /\ \E c \in Winners : call[c].username = NameAPadded
    /\ \E c \in DOMAIN call \ Winners : call[c].username = NameA
    /\ Cardinality(DOMAIN call) = 3

ValidCredentials(username, password) ==
    /\ InRange(Trim(username), UsernameMin, UsernameMax)
    /\ Trim(username) # <<>> /\ OnlyAlnum(Trim(username))
    /\ InRange(Trim(password), PasswordMin, PasswordMax)
    /\ NoWhitespace(Trim(password))

\* C5: register validates before it hashes or dispatches: a register call with
\* an invalid username or password ends at once with InvalidUsername or
\* InvalidPassword, with no hash computed, no dispatch made and the store as it
\* was, the rejected username not in it; a register that hashes or dispatches
\* has valid credentials.
C5_ValidationFirst ==
    [][ \A c \in DOMAIN call :
          /\ ( /\ call'[c] # call[c]
               /\ call'[c].op = "register"
               /\ ~ValidCredentials(call'[c].username, call'[c].password) )
             => /\ Ready(c)
                /\ call'[c].pc = "done"
                /\ call'[c].result.kind \in {"InvalidUsername", "InvalidPassword"}
                /\ call'[c].result.errors # <<>>
                /\ ~call'[c].hashed
                /\ call'[c].dispatches = 0
                /\ call'[c].data = Undefined
                /\ users' = users
                /\ ~InRange(Trim(call'[c].username), UsernameMin, UsernameMax)
                      => ~NameTaken(users', Trim(call'[c].username))
          /\ ( /\ call'[c].op = "register"
               /\ \/ call'[c].hashed
                  \/ call'[c].dispatches > 0
                  \/ call'[c].pc \in {"hash", "query"} )
             => ValidCredentials(call'[c].username, call'[c].password) ]_vars

\* one register was refused for its username, another for its password
C5_Witness ==
    \E c, d \in DOMAIN call :
        /\ Returned(c, "register")
        /\ call[c].result = Outcome("InvalidUsername", {}, <<"length">>)
        /\ Returned(d, "register")
        /\ call[d].result = Outcome("InvalidPassword", {}, <<"min">>)
        /\ call[d].dispatches = 0 /\ ~call[d].hashed

Absent == Outcome("absent", {}, <<>>)
InvalidInput == Outcome("InvalidInput", {}, <<>>)
RowsWithId(tbl, id) == {r \in tbl : r.id = id}

\* C8: updateUsername(id, n) with valid n on an existing row: if trim(n) is the
\* username of another row it fails with InvalidInput and no row changes; if no
\* row has trim(n), it returns the updated User (same id, username trim(n)),
\* that User is what findById(id) then finds, and a findById(id) executing
\* while that row is in the table returns it.
C8_UpdateUsername ==
    [][ \A c \in DOMAIN call :
          /\ ( /\ TailStep(c, "updateUsername")
               /\ IdPresent(users, call[c].id)
               /\ \E r \in users :
                     r.id # call[c].id /\ r.username = Trim(call[c].username) )
             => (call'[c].result = InvalidInput /\ users' = users)
          /\ ( /\ TailStep(c, "updateUsername")
               /\ IdPresent(users, call[c].id)
               /\ ~NameTaken(users, Trim(call[c].username)) )
             => /\ IsUser(call'[c].result)
                /\ TheUser(call'[c].result).id = call[c].id
                /\ TheUser(call'[c].result).username = Trim(call[c].username)
                /\ RowsWithId(users', call[c].id) = call'[c].result.user
                /\ ParseResult(dispatch(SelectId(users', call[c].id)))
                      = call'[c].result
          /\ \A d \in DOMAIN call :
              ( /\ Returned(c, "updateUsername")
                /\ IsUser(call[c].result)
                /\ call[c].result.user \subseteq users
                /\ TailStep(d, "findById")
                /\ call[d].id = call[c].id )
              => /\ call'[d].result = call[c].result
                 /\ TheUser(call'[d].result).username = Trim(call[c].username) ]_vars

\* an updateUsername with a padded name returned the renamed User, and a later
\* findById of that id returned the same User, under the trimmed name
C8_Witness ==
    \E c, d \in DOMAIN call :
        /\ Returned(c, "updateUsername")
        /\ call[c].username = NameAPadded
        /\ IsUser(call[c].result)
        /\ call[c].result.user \subseteq users
        /\ Returned(d, "findById")
        /\ call[d].id = call[c].id
        /\ call[d].result = call[c].result
        /\ TheUser(call[d].result).username = NameA

\* C9: deleteById, deleteByUsername and updateUsername (valid new username) on
\* a well-formed identifier that matches no row return absent and leave the
\* store unchanged; updateUsername creates no row.
C9_AbsentOnNoMatch ==
    [][ \A c \in DOMAIN call :
          /\ ( /\ TailStep(c, "deleteById") \/ TailStep(c, "updateUsername")
               /\ IsUuid(call[c].id)
               /\ ~IdPresent(users, call[c].id) )
             => (call'[c].result = Absent /\ users' = users)
          /\ ( /\ TailStep(c, "deleteByUsername")
               /\ ~NameTaken(users, call[c].username) )
             => (call'[c].result = Absent /\ users' = users) ]_vars

\* an updateUsername to a free name on a well-formed id of no row returned
\* absent, with a row of another id in the table and no row of the new name
C9_Witness ==
    \E c \in DOMAIN call :
        /\ Returned(c, "updateUsername")
        /\ call[c].result = Absent
        /\ IsUuid(call[c].id)
        /\ users # {}
        /\ ~IdPresent(users, call[c].id)
        /\ ~NameTaken(users, Trim(call[c].username))

\* C10: findById, deleteById and updateUsername (valid new username) with an id
\* that is not well-formed fail with InvalidInput, never absent, and leave the
\* store unchanged; with a well-formed id of no row they do not report
\* InvalidInput.
C10_MalformedId ==
    [][ \A c \in DOMAIN call :
          ( \/ TailStep(c, "findById")
            \/ TailStep(c, "deleteById")
            \/ TailStep(c, "updateUsername") )
          => /\ ~IsUuid(call[c].id)
                  => (call'[c].result = InvalidInput /\ users' = users)
             /\ (IsUuid(call[c].id) /\ ~IdPresent(users, call[c].id))
                  => call'[c].result.kind # "InvalidInput" ]_vars

\* a deleteById and an updateUsername with the malformed id were both refused
\* with InvalidInput while the table holds rows
C10_Witness ==
    \E c, d \in DOMAIN call :
        /\ Returned(c, "deleteById")
        /\ call[c].id = MalformedId
        /\ call[c].result = InvalidInput
        /\ Returned(d, "updateUsername")
        /\ call[d].id = MalformedId
        /\ call[d].result = InvalidInput
        /\ users # {}

\* C11: register reports UsernameInUse only when the trimmed username is
\* occupied at the time the INSERT executes; when the store rejects the INSERT
\* for another reason (a caller-supplied id that is malformed, or equal to the
\* id of an existing row while the username is free) the failure reported is
\* not UsernameInUse.
C11_UsernameInUseOnlyWhenOccupied ==
    [][ \A c \in DOMAIN call :
          (TailStep(c, "register") /\ call'[c].result.kind = "UsernameInUse")
          => NameTaken(users, Trim(call[c].username)) ]_vars

\* dispatch calls that have been made and have not returned
InFlight == {d \in DOMAIN disp : disp[d].pc \in {"connect", "query"}}
Holding == {d \in DOMAIN disp : disp[d].pc = "query"}
CheckedOut == pool[1].out
StatementRan(d) == disp[d].pc = "returned" /\ disp[d].executed # "no"

\* C12: dispatch releases the connection it acquired exactly once on every
\* exit path (statement success or statement failure): whenever no dispatch
\* is in flight no connection is checked out, and the number of checked-out
\* connections never exceeds the number of dispatch calls in flight.
C12_ReleaseExactlyOnce ==
    /\ \A d \in DOMAIN disp :
          /\ disp[d].pc = "returned" => disp[d].released = disp[d].acquired
          /\ StatementRan(d) => (disp[d].acquired = 1 /\ disp[d].released = 1)
    /\ InFlight = {} => CheckedOut = 0
    /\ CheckedOut <= Cardinality(InFlight)
    /\ CheckedOut = Cardinality(Holding)

\* one dispatch has returned after a rejected statement, one after an
\* executed statement, and a third alone holds a connection
C12_Witness ==
    \E d, e, f \in DOMAIN disp :
        /\ StatementRan(d) /\ disp[d].executed = "failed"
        /\ StatementRan(e) /\ disp[e].executed = "ok"
        /\ disp[f].pc = "query"
        /\ CheckedOut = 1

\* C13: dispatch never propagates a statement execution failure: a dispatch
\* whose statement is rejected completes normally with undefined, a dispatch
\* whose statement executes returns the statement's result (possibly with zero
\* rows), so at the dispatcher boundary undefined is returned if and only if
\* execution failed.
C13_DispatchNeverPropagates ==
    \A d \in DOMAIN disp :
        StatementRan(d)
        => /\ ~disp[d].threw
           /\ disp[d].executed = "failed" => disp[d].data = Undefined
           /\ disp[d].executed = "ok" => disp[d].data = QueryResult(disp[d].rows)
           /\ queryWasInvalid(disp[d].data) <=> disp[d].executed = "failed"

\* dispatches have returned after a rejected statement, after a statement
\* that matched no row, and after a statement that produced a row
C13_Witness ==
    \E d, e, f \in DOMAIN disp :
        /\ StatementRan(d) /\ disp[d].executed = "failed"
        /\ queryWasInvalid(disp[d].data)
        /\ StatementRan(e) /\ disp[e].executed = "ok"
        /\ queryResultIsEmpty(disp[e].data)
        /\ StatementRan(f) /\ disp[f].executed = "ok"
        /\ ~queryResultIsEmpty(disp[f].data)

\* a call of User.endDispatcher is this step
EndDispatcherStep == teardown'.calls = teardown.calls + 1

\* C14: User.endDispatcher is idempotent and safe without an initialized
\* dispatcher: calling it any number of times in a row, or when no dispatcher
\* is loaded, raises no error and ends the underlying pool at most once.
C14_EndDispatcherIdempotent ==
    [][ EndDispatcherStep
        => /\ ~teardown'.raised
           /\ dispatcher' = NoDispatcher
           /\ dispatcher = NoDispatcher => pool' = pool
           /\ \A p \in DOMAIN pool' :
                 pool'[p].ends <= 1 /\ ~pool'[p].refused
           /\ users' = users /\ call' = call ]_vars

\* User.endDispatcher was called three times on the dispatcher made at module
\* load, the last two with no dispatcher loaded: its pool was ended once
C14_Witness ==
    /\ teardown.calls = 3
    /\ ~teardown.raised
    /\ dispatcher = NoDispatcher
    /\ Len(pool) = 1
    /\ pool[1].ends = 1

\* the input of c's operation passes the validation the operation makes
\* before it turns to the store
ValidInput(cl) ==
    CASE cl.op = "register" -> ValidCredentials(cl.username, cl.password)
      [] cl.op = "updateUsername" ->
            validateUsername(cl.username).kind = "true"
      [] OTHER -> TRUE

\* caller c calls an operation, or goes on from hashing, in this step
CallerStep(c) == call[c].pc # "query" /\ call'[c] # call[c]

\* C20: after User.endDispatcher, any entity operation that needs the store
\* (findById, findByUsername, deleteById, deleteByUsername, and register or
\* updateUsername with valid input) fails with an error instead of returning
\* a User or absent, and executes no statement.
C20_UseAfterTeardown ==
    [][ \A c \in DOMAIN call :
          (dispatcher = NoDispatcher /\ CallerStep(c))
          => /\ call'[c].pc \in {"hash", "done"}
             /\ call'[c].pc = "hash" => call'[c].op = "register"
             /\ call'[c].pc = "done"
                   => /\ call'[c].result.kind \notin {"User", "absent", "none"}
                      /\ ValidInput(call'[c]) => call'[c].result = TypeError
             /\ call'[c].dispatches = 0
             /\ users' = users ]_vars

\* after teardown, with a row in the table, a findByUsername of that row's
\* username has failed with the TypeError and has dispatched nothing
C20_Witness ==
    \E c \in DOMAIN call :
        /\ dispatcher = NoDispatcher
        /\ teardown.calls >= 1
        /\ Returned(c, "findByUsername")
        /\ NameTaken(users, call[c].username)
        /\ call[c].result = TypeError
        /\ call[c].dispatches = 0

\* after teardown, a register with valid input has hashed and then failed
\* with the TypeError, the table unchanged
C20_WitnessRegister ==
    \E c \in DOMAIN call :
        /\ dispatcher = NoDispatcher
        /\ Returned(c, "register")
        /\ call[c].hashed
        /\ call[c].result = TypeError

\* caller c's updateUsername of the row with this id succeeds in this step
UpdatedHere(c, id) ==
    /\ TailStep(c, "updateUsername")
    /\ call[c].id = id
    /\ IsUser(call'[c].result)

\* C15: id, hash and created_at are immutable after creation: a successful
\* updateUsername changes only the username of the row with that id, leaves
\* that row's id, hash and created_at and every other row unchanged, and no
\* other operation modifies a field of an existing row.
C15_ImmutableFields ==
    [][ \A r \in users :
          LET after == RowsWithId(users', r.id)
          IN  after # {}
              => \E s \in after :
                    /\ after = {s}
                    /\ s.hash = r.hash
                    /\ s.created_at = r.created_at
                    /\ s # r
                         => \E c \in DOMAIN call :
                               /\ UpdatedHere(c, r.id)
                               /\ s = [r EXCEPT
                                         !.username = Trim(call[c].username)]
                               /\ TheUser(call'[c].result) = s
                               /\ users' \ {s} = users \ {r} ]_vars

\* an updateUsername has renamed one of two rows: the row of its id carries
\* the new username, and both rows are in the table
C15_Witness ==
    \E c \in DOMAIN call :
        /\ Returned(c, "updateUsername")
        /\ IsUser(call[c].result)
        /\ TheUser(call[c].result) \in users
        /\ TheUser(call[c].result).username = NameB
        /\ Cardinality(users) = 2

\* caller c's delete statement meets this row in this step
DeletesHere(c, r) ==
    \/ TailStep(c, "deleteById") /\ call[c].id = r.id
    \/ TailStep(c, "deleteByUsername") /\ call[c].username = r.username

\* C16: deleteById / deleteByUsername on an existing row returns the User as
\* it was before deletion and removes exactly that row; afterwards findById
\* and findByUsername for that user return absent, and all other rows are
\* unchanged.
C16_DeleteReturnsAndRemoves ==
    [][ \A c \in DOMAIN call : \A r \in users :
          DeletesHere(c, r)
          => /\ call'[c].result = Outcome("User", {r}, <<>>)
             /\ users' = users \ {r}
             /\ ParseResult(dispatch(SelectId(users', r.id))) = Absent
             /\ ParseResult(dispatch(SelectName(users', r.username))) = Absent
       ]_vars

\* a deleteById and a deleteByUsername have each returned the User they
\* deleted, and another row is still in the table
C16_Witness ==
    \E c, d \in DOMAIN call :
        /\ Returned(c, "deleteById") /\ IsUser(call[c].result)
        /\ Returned(d, "deleteByUsername") /\ IsUser(call[d].result)
        /\ call[c].result # call[d].result
        /\ users # {}
        /\ call[c].result.user \cap users = {}
        /\ call[d].result.user \cap users = {}

Serialized == jout # <<>>
DifferOnlyInHash(u, v) ==
    /\ u.hash # v.hash
    /\ [u EXCEPT !.hash = v.hash] = v

C18_LoginVerifiesPassword ==
    [][ \A c \in DOMAIN call :
          TailStep(c, "login")
          => /\ call'[c].result.kind = "Authenticated"
                   => \E r \in users :
                         /\ r.username = call[c].username
                         /\ call'[c].result.user = {r}
                         /\ validPassword(r, call[c].password)
             /\ \A r \in users :
                   (r.username = call[c].username
                      /\ ~validPassword(r, call[c].password))
                   => call'[c].result = IncorrectPassword ]_vars

\* C19: every username written to the store by register or updateUsername is
\* trimmed and valid: it has no surrounding whitespace, its length is between
\* 3 and 16, and it is alphanumeric.
C19_StoredUsernamesValid ==
    \A r \in users :
        /\ r.username = Trim(r.username)
        /\ InRange(r.username, UsernameMin, UsernameMax)
        /\ r.username # <<>>
        /\ OnlyAlnum(r.username)

\* a register and an updateUsername, both given padded usernames, have each
\* written a row that is in the table
C19_Witness ==
    \E c, d \in DOMAIN call :
        /\ Returned(c, "register")
        /\ call[c].username # Trim(call[c].username)
        /\ IsUser(call[c].result)
        /\ TheUser(call[c].result).id \in {r.id : r \in users}
        /\ Returned(d, "updateUsername")
        /\ call[d].username # Trim(call[d].username)
        /\ IsUser(call[d].result)
        /\ TheUser(call[d].result) \in users

\* the callers whose statement executes in this step
Executing == {c \in DOMAIN call : call[c].pc = "query" /\ call'[c].pc = "done"}

\* C21: every User entity operation performs at most one dispatch call:
\* exactly one when input validation passes (or none is required) and none
\* when validation fails; each dispatch executes exactly one statement and
\* ends with it, so that nothing of a dispatch is held across two statements
\* or across two operations.
C21_OneDispatchPerOperation ==
    [][ /\ \A c \in DOMAIN call :
              /\ call'[c].dispatches <= 1
              /\ call'[c].pc = "done"
                    => call'[c].dispatches
                         = (IF ValidInput(call'[c]) THEN 1 ELSE 0)
              /\ call'[c].pc = "query" <=>
                    (call'[c].dispatches = 1 /\ call'[c].result = NoOutcome)
              /\ call'[c].pc \in {"idle", "hash"} => call'[c].dispatches = 0
              /\ (call[c].pc = "query" /\ call'[c] # call[c])
                    => (c \in Executing /\ call'[c].op = call[c].op)
        /\ users' # users => Cardinality(Executing) = 1 ]_vars

\* a register with an invalid username has returned without a dispatch, a
\* register with valid input has returned after hashing and one dispatch
C21_Witness ==
    \E c, d \in DOMAIN call :
        /\ Returned(c, "register")
        /\ ~ValidInput(call[c])
        /\ call[c].dispatches = 0
        /\ Returned(d, "register")
        /\ ValidInput(call[d])
        /\ call[d].hashed
        /\ call[d].dispatches = 1
        /\ IsUser(call[d].result)

\* C22: with a pool of bounded size and more concurrent dispatch calls than
\* connections, every dispatch call waiting for a connection eventually
\* acquires one and completes, provided each statement execution terminates
\* and scheduling is fair: pool exhaustion never leads to a deadlock or to a
\* call that waits forever.
C22_WaitingCallCompletes ==
    \A d \in Dispatchers :
        /\ (disp[d].pc = "connect") ~> (disp[d].pc \in {"query", "returned"})
        /\ (disp[d].pc = "query") ~> (disp[d].pc = "returned")

\* the pool is exhausted: every connection is held by a call inside its
\* statement, and one more call waits for a connection
C22_Witness ==
    /\ CheckedOut = PoolSize
    /\ Cardinality(Holding) = PoolSize
    /\ \E d \in Dispatchers : disp[d].pc = "connect"

\* a dispatchQuery call of the helper has returned to its caller
HelperReturned(r) == disp[r].pc = "returned" /\ ~disp[r].threw

\* C23: the table-reset helper's dispatchQuery releases the client it
\* acquired on every exit path, including when the statement fails: when it
\* returns, no client of the pool it created remains checked out, and that
\* pool has been ended exactly once.
C23_HelperReleasesAndEnds ==
    \A r \in DOMAIN disp :
        (disp[r].pool # 0 /\ HelperReturned(r))
        => /\ disp[r].released = disp[r].acquired
           /\ pool[disp[r].pool].out = 0
           /\ pool[disp[r].pool].ends = 1

====
